---- MODULE Spec2Model ----
(***************************************************************************)
(* Model of genesis/length_scales/cumulant/calc.py: the width estimators   *)
(* (_find_width_through_mass_weighting, _find_width_through_cutoff), the   *)
(* principal-axis angle (identify_principle_axis) and the window-growth    *)
(* loop of charactistic_scales.                                            *)
(*                                                                         *)
(* Floating-point values are records [k, v]: k = "fin" with the integer    *)
(* value v, k = "nan", or k = "inf" with v = 1 (+inf) or v = -1 (-inf).    *)
(* Distances along the sampling line are integers: the nodes of the line   *)
(* profile, one grid step apart.  Widths are integers in units of          *)
(* 1/WScale of a grid step.  Angles are integers in units of pi/4.         *)
(***************************************************************************)
EXTENDS Integers, Sequences, FiniteSets, TLC

VARIABLES
    pc,                    \* position of charactistic_scales
    sample_angle,          \* argument of charactistic_scales (degrees) or None
    width_est_method,      \* argument of charactistic_scales
    origin,                \* the cumulant sampled at distance 0 of every line
    data_max,              \* C_vv.values.max()
    l_win,                 \* l_theta_win * 1.2^l_win
    m,                     \* the loop's growth counter
    n_iter,                \* number of times the loop body has been entered
    theta,                 \* principal-axis angle of the current iteration
    width_principle_axis,
    width_perpendicular,
    n_warn,                \* "Couldn't find principle axis" warnings emitted
    exc,                   \* exception that escaped charactistic_scales
    dataset,               \* the returned xr.Dataset
    width_calls,           \* calls of width_func: their number, the angles of this iteration
    wcall,                 \* one call of a width estimator: input and outcome
    acall,                 \* one call of identify_principle_axis
    ccall,                 \* calls of calc_2nd_cumulant: arguments and outcomes
    twin,                  \* a second call of charactistic_scales on the same input
    module_level           \* the names bound at module level of calc.py

scalesVars == <<pc, sample_angle, width_est_method, origin, data_max, l_win, m,
                n_iter, theta, width_principle_axis, width_perpendicular,
                n_warn, exc, dataset, width_calls, twin, module_level>>
vars == <<pc, sample_angle, width_est_method, origin, data_max, l_win, m,
          n_iter, theta, width_principle_axis, width_perpendicular, n_warn,
          exc, dataset, wcall, acall, ccall, width_calls, twin, module_level>>

----------------------------------------------------------------------------
(* Bounds of the model *)

MaxVal == 1        \* sampled cumulant values range over -1..MaxVal
HalfWidth == 2     \* nodes of a half-line searched by a width estimator
WScale == 4        \* a width is an integer number of 1/WScale grid steps
MaxGrow == 12      \* window growths explored in one call
MaxInertia == 2    \* entries of the inertia tensor range over -MaxInertia..MaxInertia
MaxCells == 3      \* cells Nx*Ny of a field given to calc_2nd_cumulant
MaxField == 1      \* field values range over 0..MaxField
MaxReplay == 2     \* loop iterations of each of two calls run side by side
MaxSide == 4       \* a cumulant given to identify_principle_axis has 1..MaxSide cells a side
MaxWindow == 10    \* window sizes sI_N range over 0..MaxWindow
MaxPatch == 8      \* cells of a cumulant given to _extract_cumulant_center

----------------------------------------------------------------------------
(* IEEE-754 values and the numpy operations the code applies to them *)

NaN == [k |-> "nan", v |-> 0]
Inf == [k |-> "inf", v |-> 1]
NegInf == [k |-> "inf", v |-> -1]
FNum(x) == [k |-> "fin", v |-> x]

isnan(f) == f.k = "nan"
IsFin(f) == f.k = "fin"
IsInf(f) == f.k = "inf"

Sgn(x) == IF x > 0 THEN 1 ELSE IF x < 0 THEN -1 ELSE 0
Abs(x) == IF x < 0 THEN -x ELSE x

\* np.sign
sign(f) == IF isnan(f) THEN NaN ELSE FNum(Sgn(f.v))

\* a * b
FMul(a, b) ==
    IF isnan(a) \/ isnan(b) THEN NaN
    ELSE IF IsFin(a) /\ IsFin(b) THEN FNum(a.v * b.v)
    ELSE IF a.v = 0 \/ b.v = 0 THEN NaN
    ELSE IF Sgn(a.v) * Sgn(b.v) > 0 THEN Inf ELSE NegInf

FNeg(a) == IF isnan(a) THEN NaN ELSE [k |-> a.k, v |-> -a.v]

\* a + b
FAdd(a, b) ==
    IF isnan(a) \/ isnan(b) THEN NaN
    ELSE IF IsFin(a) /\ IsFin(b) THEN FNum(a.v + b.v)
    ELSE IF IsInf(a) /\ IsInf(b) THEN (IF a.v = b.v THEN a ELSE NaN)
    ELSE IF IsInf(a) THEN a ELSE b

\* a - b
FSub(a, b) == FAdd(a, FNeg(b))

\* np.abs
FAbs(a) == IF isnan(a) THEN NaN ELSE [k |-> a.k, v |-> Abs(a.v)]

\* np.maximum(0, a): propagates NaN
maximum0(a) ==
    IF isnan(a) THEN NaN
    ELSE IF a.v > 0 THEN a ELSE FNum(0)

\* a > b (False when either is NaN)
FGt(a, b) ==
    /\ ~isnan(a)
    /\ ~isnan(b)
    /\ IF IsFin(a) /\ IsFin(b) THEN a.v > b.v
       ELSE IF IsInf(a) /\ IsInf(b) THEN a.v > b.v
       ELSE IF IsInf(a) THEN a.v > 0
       ELSE b.v < 0

\* a < 0.0 (False for NaN)
FNegative(a) == ~isnan(a) /\ a.v < 0

\* a cumulant takes either sign; the estimators read the sign of a negative
\* value and the size of a positive one
FiniteVals == {FNum(x) : x \in -1..MaxVal}
SampleVals == {NaN} \cup FiniteVals

----------------------------------------------------------------------------
(* Line profiles.  _get_line_sample_func(data, theta) returns sample(mu),   *)
(* the linear interpolant of data at distance mu along the line at angle     *)
(* theta.  A line profile is that function on the nodes -n..n.               *)

Min(a, b) == IF a <= b THEN a ELSE b
Max(a, b) == IF a >= b THEN a ELSE b

Nodes(n) == (-n)..n

sample_fn(line, mu) == line[mu]

----------------------------------------------------------------------------
(* _find_width_through_mass_weighting *)

\* np.all(np.isnan(vals_))
all_isnan(vals) == \A i \in DOMAIN vals : isnan(vals[i])

\* np.min: NaN when any element is NaN
np_min(vals) ==
    IF \E i \in DOMAIN vals : isnan(vals[i]) THEN NaN
    ELSE FNum(CHOOSE x \in {vals[i].v : i \in DOMAIN vals} :
                  \A i \in DOMAIN vals : x <= vals[i].v)

\* np.argmin of a NaN-free sequence: the first index of the minimum
argmin(vals) ==
    CHOOSE i \in DOMAIN vals :
        /\ vals[i] = np_min(vals)
        /\ \A j \in DOMAIN vals : vals[j] = np_min(vals) => i <= j

\* Twice the composite trapezoid rule on the nodes lo..hi.
RECURSIVE TrapSum(_, _, _)
TrapSum(f, lo, hi) ==
    IF lo >= hi THEN 0 ELSE f[lo].v + f[lo + 1].v + TrapSum(f, lo + 1, hi)

\* scipy.integrate.quad(f, a, b): a quadrature rule with positive weights on
\* [a, b]; limits in descending order negate the integral; a NaN integrand
\* gives NaN.  The common factor 2 cancels in inertia/mass.
quad(f, a, b) ==
    IF \E i \in Min(a, b)..Max(a, b) : isnan(f[i]) THEN NaN
    ELSE FNum((IF a <= b THEN 1 ELSE -1) * TrapSum(f, Min(a, b), Max(a, b)))

\* The quotient x/y of two finite or NaN values, y # 0, in units of 1/WScale.
Quotient(x, y) ==
    IF isnan(x) \/ isnan(y) THEN NaN
    ELSE FNum(Sgn(x.v) * Sgn(y.v) * ((Abs(x.v) * WScale) \div Abs(y.v)))

\* inertia/mass on Python floats: dividing by zero raises
truediv(x, y) ==
    IF ~isnan(y) /\ y.v = 0
    THEN [exc |-> "ZeroDivisionError", val |-> NaN]
    ELSE [exc |-> "none", val |-> Quotient(x, y)]

\* s = np.sign(sample_fn(0.0)[1])
SignAtOrigin(line) == sign(sample_fn(line, 0))

\* fn(mu) = np.maximum(0, s*val)
fn(line, mu) == maximum0(FMul(SignAtOrigin(line), sample_fn(line, mu)))

\* x_ = np.linspace(kw['a'], kw['b'], 100): the nodes of the half-line, ascending
linspace_half(dir) ==
    [i \in 1..(HalfWidth + 1) |-> (IF dir = 1 THEN 0 ELSE -HalfWidth) + i - 1]

\* vals_ = s*sample_fn(x_)[1]
coarse_vals(line, dir) ==
    [i \in 1..(HalfWidth + 1) |->
        FMul(SignAtOrigin(line), sample_fn(line, linspace_half(dir)[i]))]

\* the integration limits kw = dict(a=..., b=...) after the truncation step
quad_limits(line, dir) ==
    LET vals_ == coarse_vals(line, dir)
        max_width_local == linspace_half(dir)[argmin(vals_)]
    IN  IF FNegative(np_min(vals_))
        THEN IF dir = 1 THEN [a |-> 0, b |-> max_width_local]
             ELSE [a |-> -max_width_local, b |-> 0]
        ELSE IF dir = 1 THEN [a |-> 0, b |-> HalfWidth]
             ELSE [a |-> -HalfWidth, b |-> 0]

\* mass, _ = scipy.integrate.quad(fn_mass, **kw)
mass_integral(line, dir) ==
    LET kw == quad_limits(line, dir)
    IN  quad([mu \in DOMAIN line |-> fn(line, mu)], kw.a, kw.b)

\* inertia, _ = scipy.integrate.quad(fn_inertia, **kw)
inertia_integral(line, dir) ==
    LET kw == quad_limits(line, dir)
    IN  quad([mu \in DOMAIN line |-> FMul(fn(line, mu), FNum(Abs(mu)))],
             kw.a, kw.b)

\* mass_weighted_edge(dir): [exc, val]
mass_weighted_edge(line, dir) ==
    IF all_isnan(coarse_vals(line, dir))
    THEN [exc |-> "Exception", val |-> NaN]
    ELSE LET dist == truediv(inertia_integral(line, dir), mass_integral(line, dir))
         IN  [exc |-> dist.exc, val |-> FMul(FNum(dir), dist.val)]

\* the same without the `except ZeroDivisionError` handler
_find_width_uncaught(line) ==
    LET pos == mass_weighted_edge(line, 1)
        neg == mass_weighted_edge(line, -1)
    IN  IF pos.exc # "none" THEN [exc |-> pos.exc, width |-> NaN]
        ELSE IF neg.exc # "none" THEN [exc |-> neg.exc, width |-> NaN]
        ELSE [exc |-> "none", width |-> FSub(pos.val, neg.val)]

\* The body of _find_width_through_mass_weighting: [exc, width].  The
\* positive edge is evaluated first; ZeroDivisionError from either edge is
\* caught and gives NaN, any other exception escapes.
_find_width_through_mass_weighting(line) ==
    LET pos == mass_weighted_edge(line, 1)
        neg == mass_weighted_edge(line, -1)
    IN  IF pos.exc = "ZeroDivisionError" THEN [exc |-> "none", width |-> NaN]
        ELSE IF pos.exc # "none" THEN [exc |-> pos.exc, width |-> NaN]
        ELSE IF neg.exc = "ZeroDivisionError" THEN [exc |-> "none", width |-> NaN]
        ELSE IF neg.exc # "none" THEN [exc |-> neg.exc, width |-> NaN]
        ELSE [exc |-> "none", width |-> FSub(pos.val, neg.val)]

\* _extract_cumulant_center on the cells of a line through the origin: the
\* nodes joined to node 0 by nodes of the sign of node 0 (NaN equals no sign)
center_nodes(line) ==
    {mu \in DOMAIN line :
        \A nu \in Min(0, mu)..Max(0, mu) :
            /\ ~isnan(line[nu])
            /\ sign(line[nu]) = sign(line[0])}

\* c_vv = ifft2(V1*conj(V2)).real/(Nx*Ny): a NaN in the input makes every
\* value of the cumulant NaN, so a line is NaN everywhere or nowhere
MassLines ==
    {[mu \in Nodes(HalfWidth) |-> NaN]} \cup [Nodes(HalfWidth) -> FiniteVals]

----------------------------------------------------------------------------
(* _find_width_through_cutoff.  d_at_inf = 0.0 and width_peak_fraction =    *)
(* 0.5, so root_fn(mu) = d_val/d_max - 0.5 in numpy arithmetic (division by *)
(* zero gives an infinity or NaN, no exception).  Its sign is computed here *)
(* without dividing: 1, 0, -1, or SgnNaN when root_fn(mu) is NaN.           *)

SgnNaN == 2

\* sample_fn_normed(mu)[1] < 0.0
normed_isneg(d_val, d_max) ==
    /\ ~isnan(d_val)
    /\ ~isnan(d_max)
    /\ IF d_max.v > 0 THEN d_val.v < 0
       ELSE IF d_max.v < 0 THEN d_val.v > 0
       ELSE d_val.v < 0

\* twice the numerator of root_fn(mu), for d_max # 0: its sign is that of
\* root_fn(mu) times that of d_max
RootNum(d_val, d_max) == 2 * d_val.v - d_max.v

\* the sign of root_fn(mu)
root_fn_sign(d_val, d_max) ==
    IF isnan(d_val) \/ isnan(d_max) THEN SgnNaN
    ELSE IF d_max.v = 0
         THEN (IF d_val.v = 0 THEN SgnNaN ELSE Sgn(d_val.v))
         ELSE Sgn(RootNum(d_val, d_max)) * Sgn(d_max.v)

\* mu_coarse = np.linspace(0.0, dir*max_width, 100): the nodes 0, dir, 2 dir, ...
mu_coarse(dir) == [i \in 1..(HalfWidth + 1) |-> dir * (i - 1)]

\* np.argwhere(d_coarse < 0.0): the indices of the negative coarse samples
argwhere_isneg(line, d_max, dir) ==
    {i \in 1..(HalfWidth + 1) :
        normed_isneg(sample_fn(line, mu_coarse(dir)[i]), d_max)}

\* mu_lim: the first negative coarse sample, or dir*max_width when np.min of
\* the empty index array raises ValueError
mu_lim(line, d_max, dir) ==
    LET isneg == argwhere_isneg(line, d_max, dir)
    IN  IF isneg = {} THEN dir * HalfWidth
        ELSE mu_coarse(dir)[CHOOSE i \in isneg : \A j \in isneg : i <= j]

\* The root of the linear interpolant between the nodes lo and lo+1, where
\* root_fn changes sign, in units of 1/WScale.
CrossingAt(line, d_max, lo) ==
    LET flo == Abs(RootNum(line[lo], d_max))
        fhi == Abs(RootNum(line[lo + 1], d_max))
    IN  WScale * lo + (WScale * flo) \div (flo + fhi)

\* scipy.optimize.brentq(f=root_fn, a, b): the set of possible outcomes
\* [exc, x].  ValueError when f(a) and f(b) have the same sign or f is NaN
\* there; an endpoint that is a root is returned; otherwise a root inside
\* the bracket (which one, when root_fn crosses zero several times, is left
\* open).
brentq(line, d_max, a, b) ==
    LET fa == root_fn_sign(sample_fn(line, a), d_max)
        fb == root_fn_sign(sample_fn(line, b), d_max)
        lo == Min(a, b)
        hi == Max(a, b)
        at_nodes == {WScale * i : i \in
                        {j \in (lo + 1)..(hi - 1) :
                            root_fn_sign(sample_fn(line, j), d_max) = 0}}
        between == {CrossingAt(line, d_max, i) : i \in
                        {j \in lo..(hi - 1) :
                            root_fn_sign(sample_fn(line, j), d_max)
                              * root_fn_sign(sample_fn(line, j + 1), d_max) = -1}}
    IN  IF fa = SgnNaN \/ fb = SgnNaN \/ fa * fb > 0
        THEN {[exc |-> "ValueError", x |-> NaN]}
        ELSE IF fa = 0 THEN {[exc |-> "none", x |-> FNum(WScale * a)]}
        ELSE IF fb = 0 THEN {[exc |-> "none", x |-> FNum(WScale * b)]}
        ELSE {[exc |-> "none", x |-> FNum(r)] : r \in at_nodes \cup between}

\* no handler: the ValueError of brentq escapes find_edge
edge_not_found_raises(dir) == [x_hwhm |-> NaN, warned |-> FALSE, exc |-> "ValueError"]

\* the handler of `except ValueError`: warn, x_hwhm = np.inf, go on
edge_not_found(dir) == [x_hwhm |-> Inf, warned |-> TRUE, exc |-> "none"]

\* find_edge(dir): the set of possible outcomes [x_hwhm, warned, exc]
find_edge(line, d_max, dir) ==
    {IF r.exc = "ValueError" THEN edge_not_found(dir)
     ELSE [x_hwhm |-> r.x, warned |-> FALSE, exc |-> r.exc] :
        r \in brentq(line, d_max, 0, mu_lim(line, d_max, dir))}

\* The body of _find_width_through_cutoff: the set of possible outcomes.
\* width = find_edge(1.0) - find_edge(-1.0)
_find_width_through_cutoff(line, d_max) ==
    {IF pos.exc # "none"
     THEN [exc |-> pos.exc, width |-> NaN, pos |-> pos, neg |-> pos, n_edges |-> 1]
     ELSE IF neg.exc # "none"
     THEN [exc |-> neg.exc, width |-> NaN, pos |-> pos, neg |-> neg, n_edges |-> 2]
     ELSE [exc |-> "none", width |-> FSub(pos.x_hwhm, neg.x_hwhm),
           pos |-> pos, neg |-> neg, n_edges |-> 2] :
        pos \in find_edge(line, d_max, 1), neg \in find_edge(line, d_max, -1)}

\* d_max = data.values.max(): NaN when data holds a NaN, else at least every
\* sample of the line (the interpolant is linear and clamps at the edges)
DMaxVals == {NaN} \cup {FNum(x) : x \in -1..(MaxVal + 1)}

CutoffInputs ==
    {in \in [line : [Nodes(HalfWidth) -> FiniteVals], d_max : DMaxVals] :
        isnan(in.d_max) \/ \A mu \in Nodes(HalfWidth) : in.line[mu].v <= in.d_max.v}

----------------------------------------------------------------------------
(* One call of a width estimator on a line profile *)

NoEdge == [x_hwhm |-> NaN, warned |-> FALSE, exc |-> "none"]

\* Before the call: the arguments.
WidthCall(method, line, d_max) ==
    [pc |-> "ready", method |-> method, line |-> line, d_max |-> d_max,
     width |-> NaN, exc |-> "none", pos |-> NoEdge, neg |-> NoEdge, n_edges |-> 0]

WidthIdle == [pc |-> "idle", method |-> "none", line |-> <<>>, d_max |-> NaN,
              width |-> NaN, exc |-> "none", pos |-> NoEdge, neg |-> NoEdge,
              n_edges |-> 0]

\* width = mass_weighted_edge(1.0) - mass_weighted_edge(-1.0), in its try block
MassWeightedCall ==
    /\ wcall.pc = "ready"
    /\ wcall.method = "MASS_WEIGHTED"
    /\ LET r == _find_width_through_mass_weighting(wcall.line)
           pos == mass_weighted_edge(wcall.line, 1)
           neg == mass_weighted_edge(wcall.line, -1)
       IN  wcall' = [wcall EXCEPT
                        !.pc = IF r.exc = "none" THEN "returned" ELSE "raised",
                        !.width = r.width,
                        !.exc = r.exc,
                        !.pos = [x_hwhm |-> pos.val, warned |-> FALSE, exc |-> pos.exc],
                        !.neg = IF pos.exc = "none"
                                THEN [x_hwhm |-> neg.val, warned |-> FALSE,
                                      exc |-> neg.exc]
                                ELSE NoEdge,
                        !.n_edges = IF pos.exc = "none" THEN 2 ELSE 1]

\* width = find_edge(1.0) - find_edge(-1.0)
CutoffCall ==
    /\ wcall.pc = "ready"
    /\ wcall.method = "CUTOFF"
    /\ \E r \in _find_width_through_cutoff(wcall.line, wcall.d_max) :
           wcall' = [wcall EXCEPT
                        !.pc = IF r.exc = "none" THEN "returned" ELSE "raised",
                        !.width = r.width,
                        !.exc = r.exc,
                        !.pos = r.pos,
                        !.neg = r.neg,
                        !.n_edges = r.n_edges]

MassInit == wcall \in {WidthCall("MASS_WEIGHTED", l, NaN) : l \in MassLines}

CutoffInit == wcall \in {WidthCall("CUTOFF", in.line, in.d_max) : in \in CutoffInputs}

----------------------------------------------------------------------------
(* _extract_cumulant_center, lines 217-232, on a cumulant with finite       *)
(* values.  The cumulant is its shape and its values on the flat indices    *)
(* 0..N-1 in row-major order.                                               *)

\* the flat index of cell (i, j) of an array of this shape
cell(i, j, shape) == i * shape[2] + j

\* cells n and k touch, diagonals included: skimage.measure.label joins
\* pixels with connectivity input.ndim = 2 by default
touching(n, k, shape) ==
    /\ k # n
    /\ Abs((k \div shape[2]) - (n \div shape[2])) <= 1
    /\ Abs((k % shape[2]) - (n % shape[2])) <= 1

\* the cells of the mask joined to those of S
RECURSIVE flood(_, _, _)
flood(S, mask, shape) ==
    LET more == S \cup {k \in DOMAIN mask :
                           mask[k] /\ \E n \in S : touching(n, k, shape)}
    IN  IF more = S THEN S ELSE flood(more, mask, shape)

\* the least element of a set of cells
first_of(S) == CHOOSE k \in S : \A j \in S : k <= j

\* every True cell given one label
label_one_region(mask, shape) == [n \in DOMAIN mask |-> IF mask[n] THEN 1 ELSE 0]

\* skimage.measure.label(mask): 0 on the background (False), and on each
\* connected region of True cells one positive label of its own
label(mask, shape) ==
    [n \in DOMAIN mask |->
        IF ~mask[n] THEN 0 ELSE 1 + first_of(flood({n}, mask, shape))]

\* The body of _extract_cumulant_center: the cells whose value is kept, and
\* the rows and columns C_vv.where(da_mask_center, drop=True) leaves.
_extract_cumulant_center(shape, vals) ==
    LET nx == shape[1]
        ny == shape[2]
        centre == cell(nx \div 2, ny \div 2, shape)
        mask == [n \in DOMAIN vals |-> Sgn(vals[n]) = Sgn(vals[centre])]
        labels == label(mask, shape)
        mask_center == [n \in DOMAIN vals |-> labels[n] = labels[centre]]
        kept == {n \in DOMAIN vals : mask_center[n]}
    IN  [kept |-> kept,
         rows |-> {n \div ny : n \in kept},
         cols |-> {n % ny : n \in kept}]

\* the grids of at most MaxPatch cells, no side longer than half of that
PatchShapes ==
    {sh \in (1..(MaxPatch \div 2)) \X (1..(MaxPatch \div 2)) : sh[1] * sh[2] <= MaxPatch}

\* One call on a cumulant of this shape with these values.
CenterRun(shape, vals) ==
    [pc |-> "ready", method |-> "center", shape |-> shape, vals |-> vals,
     kept |-> {}, rows |-> {}, cols |-> {}]

CenterInit ==
    \E shape \in PatchShapes :
        \E vals \in [0..(shape[1] * shape[2] - 1) -> -1..1] :
            wcall = CenterRun(shape, vals)

CenterCall ==
    /\ wcall.pc = "ready"
    /\ wcall.method = "center"
    /\ LET r == _extract_cumulant_center(wcall.shape, wcall.vals)
       IN  wcall' = [wcall EXCEPT !.pc = "returned", !.kept = r.kept,
                                  !.rows = r.rows, !.cols = r.cols]

----------------------------------------------------------------------------
(* identify_principle_axis: from the inertia tensor I = [[a, b], [b, d]] to *)
(* the angle.  Angles are in units of pi/4, so the tensors are those whose  *)
(* eigenvectors lie on multiples of pi/4: diagonal ones, and those with     *)
(* equal diagonal entries.                                                   *)

pi == 4

InertiaTensors ==
    {I \in [a : -MaxInertia..MaxInertia, b : -1..1, d : -MaxInertia..MaxInertia] :
        I.b = 0 \/ I.a = I.d}

\* the eigenpairs of I; eigenvectors up to a positive factor, which
\* np.arctan2 does not see
EigenPairs(I) ==
    IF I.b = 0
    THEN <<[la |-> I.a, vec |-> <<1, 0>>], [la |-> I.d, vec |-> <<0, 1>>]>>
    ELSE <<[la |-> I.a + I.b, vec |-> <<1, 1>>], [la |-> I.a - I.b, vec |-> <<1, -1>>]>>

\* la, v = np.linalg.eig(I): the set of possible outcomes.  The eigenvalues
\* come in no guaranteed order and each eigenvector, column v[:, i], with
\* either sign.  v is held as the pair of its rows.
eig(I) ==
    {LET p1 == EigenPairs(I)[o[1]]
         p2 == EigenPairs(I)[o[2]]
     IN  [la |-> <<p1.la, p2.la>>,
          v |-> << <<s1 * p1.vec[1], s2 * p2.vec[1]>>,
                   <<s1 * p1.vec[2], s2 * p2.vec[2]>> >>] :
        o \in {<<1, 2>>, <<2, 1>>}, s1 \in {1, -1}, s2 \in {1, -1}}

\* np.argsort(la)
argsort(la) == IF la[2] < la[1] THEN <<2, 1>> ELSE <<1, 2>>

\* v = v[sort_idx]; v0 = v[0]: the first row of the row-permuted matrix
principal_v0(e) == e.v[argsort(e.la)[1]]

\* np.arctan2(y, x) for (y, x) on a multiple of pi/4
arctan2(y, x) ==
    IF y = 0 THEN (IF x < 0 THEN pi ELSE 0)
    ELSE IF y > 0 THEN (IF x > 0 THEN 1 ELSE IF x = 0 THEN 2 ELSE 3)
    ELSE (IF x > 0 THEN -1 ELSE IF x = 0 THEN -2 ELSE -3)

\* theta = np.arctan2(v0[0], v0[1]); if theta < 0.0: theta += pi
positive_angle(v0) ==
    LET t == arctan2(v0[1], v0[2])
    IN  IF t < 0 THEN t + pi ELSE t

\* identify_principle_axis, after the tensor has been summed
identify_principle_axis(e) == positive_angle(principal_v0(e))

AxisIdle == [pc |-> "idle", I |-> [a |-> 0, b |-> 0, d |-> 0],
             la |-> <<0, 0>>, v |-> << <<0, 0>>, <<0, 0>> >>, v0 |-> <<0, 0>>,
             theta |-> 0]

AxisInit ==
    acall \in {[AxisIdle EXCEPT !.pc = "ready", !.I = I] : I \in InertiaTensors}

AxisCall ==
    /\ acall.pc = "ready"
    /\ \E e \in eig(acall.I) :
           acall' = [acall EXCEPT !.pc = "returned",
                                  !.la = e.la,
                                  !.v = e.v,
                                  !.v0 = principal_v0(e),
                                  !.theta = identify_principle_axis(e)]

\* every angle identify_principle_axis can return
AxisOutcomes == {identify_principle_axis(e) : e \in UNION {eig(I) : I \in InertiaTensors}}

----------------------------------------------------------------------------
(* identify_principle_axis, lines 161-187: the window of the cumulant the   *)
(* inertia tensor is summed over, and the cell the sign s is read from.     *)
(* A slice is the pair <<start, stop>>.                                     *)

\* slice(start, stop).indices(N): a negative bound counts from the end of
\* the axis, then both bounds are clipped to 0..N
slice_indices(sl, N) ==
    LET norm(i) == IF i < 0 THEN Max(i + N, 0) ELSE Min(i, N)
    IN  <<norm(sl[1]), norm(sl[2])>>

\* the indices C[sl] selects on an axis of length N
Selected(sl, N) ==
    {i \in 0..(N - 1) : slice_indices(sl, N)[1] <= i /\ i < slice_indices(sl, N)[2]}

\* lines 161-164: Nx, Ny = C.shape for dims ('x', 'y'), Ny, Nx = C.shape
\* otherwise
unpack_Nx(shape, dims) == IF dims = "xy" THEN shape[1] ELSE shape[2]

unpack_Ny(shape, dims) == IF dims = "xy" THEN shape[2] ELSE shape[1]

\* lines 174-175
sI_x(shape, dims, sI_N) ==
    <<unpack_Nx(shape, dims) \div 2 - sI_N \div 2,
      unpack_Nx(shape, dims) \div 2 + sI_N \div 2>>

sI_y(shape, dims, sI_N) ==
    <<unpack_Ny(shape, dims) \div 2 - sI_N \div 2,
      unpack_Ny(shape, dims) \div 2 + sI_N \div 2>>

\* lines 182-187: C[sI_x, sI_y] for dims ('x', 'y'), C[sI_y, sI_x] otherwise:
\* the indices summed over on axis 0 and on axis 1
window_cells(shape, dims, sI_N) ==
    IF dims = "xy"
    THEN <<Selected(sI_x(shape, dims, sI_N), shape[1]),
           Selected(sI_y(shape, dims, sI_N), shape[2])>>
    ELSE <<Selected(sI_y(shape, dims, sI_N), shape[1]),
           Selected(sI_x(shape, dims, sI_N), shape[2])>>

\* line 180: the index of C[Nx//2, Ny//2], on axis 0 and on axis 1
sign_index(shape, dims) ==
    <<unpack_Nx(shape, dims) \div 2, unpack_Ny(shape, dims) \div 2>>

\* an index beyond the end of its axis raises IndexError
in_bounds(idx, shape) == idx[1] < shape[1] /\ idx[2] < shape[2]

GridShapes == (1..MaxSide) \X (1..MaxSide)

\* One call on a cumulant of this shape and dims with window sI_N.
WindowRun(shape, dims, sI_N) ==
    [pc |-> "ready", shape |-> shape, dims |-> dims, sI_N |-> sI_N,
     s_at |-> <<0, 0>>, cells |-> <<{}, {}>>, exc |-> "none"]

WindowInit ==
    acall \in {WindowRun(shape, dims, sI_N) :
                  shape \in GridShapes, dims \in {"xy", "yx"}, sI_N \in 0..MaxWindow}

\* lines 161-187, up to the tensor
WindowCall ==
    /\ acall.pc = "ready"
    /\ IF in_bounds(sign_index(acall.shape, acall.dims), acall.shape)
       THEN acall' = [acall EXCEPT
                         !.pc = "returned",
                         !.s_at = sign_index(acall.shape, acall.dims),
                         !.cells = window_cells(acall.shape, acall.dims, acall.sI_N)]
       ELSE acall' = [acall EXCEPT !.pc = "raised", !.exc = "IndexError"]

----------------------------------------------------------------------------
(* _get_line_sample_func on the cumulant calc_2nd_cumulant returns.  The    *)
(* cumulant carries the coordinate axes of v1 (line 153).  An axis is the   *)
(* function from the index to the coordinate, in grid steps; the axes are   *)
(* uniformly spaced with step 1.                                            *)

\* the axis of n cells that starts at the coordinate first
axis(first, n) == [i \in 0..(n - 1) |-> first + i]

\* the interpolant along one axis at the coordinate p: the node whose
\* coordinate is p; beyond the ends of the axis the query is clamped to the
\* end node or extrapolated past it
interp_at(coords, p) ==
    LET n == Cardinality(DOMAIN coords)
    IN  IF p < coords[0]
        THEN {[k |-> "node", i |-> 0], [k |-> "beyond", i |-> 0]}
        ELSE IF p > coords[n - 1]
        THEN {[k |-> "node", i |-> n - 1], [k |-> "beyond", i |-> n - 1]}
        ELSE {[k |-> "node", i |-> p - coords[0]]}

\* lines 362-372: sample(mu) at mu = 0 queries the interpolant at the point
\* x_ = cos(theta)*0, y_ = sin(theta)*0, ordered as the dims are: the set of
\* places of the field, on axis 0 and on axis 1, the value may come from
sample_at_zero(dims, x, y) ==
    LET x_ == 0
        y_ == 0
    IN  IF dims = "xy"
        THEN {<<a, b>> : a \in interp_at(x, x_), b \in interp_at(y, y_)}
        ELSE {<<a, b>> : a \in interp_at(y, y_), b \in interp_at(x, x_)}

\* the first coordinate of an input axis
AxisStarts == (-MaxSide)..1

\* One sampler built on the cumulant of fields of this shape and dims whose
\* x and y axes start at x0 and y0.
SampleRun(shape, dims, x0, y0) ==
    [pc |-> "ready", shape |-> shape, dims |-> dims,
     x |-> axis(x0, unpack_Nx(shape, dims)), y |-> axis(y0, unpack_Ny(shape, dims)),
     at |-> <<>>]

SampleInit ==
    acall \in {SampleRun(shape, dims, x0, y0) :
                  shape \in GridShapes, dims \in {"xy", "yx"},
                  x0 \in AxisStarts, y0 \in AxisStarts}

\* sample_fn(0.0)
SampleCall ==
    /\ acall.pc = "ready"
    /\ \E at \in sample_at_zero(acall.dims, acall.x, acall.y) :
           acall' = [acall EXCEPT !.pc = "sampled", !.at = at]

----------------------------------------------------------------------------
(* identify_principle_axis on a tensor with complex eigenvalues.  The two   *)
(* off-diagonal sums np.sum(m*x*y) and np.sum(m*y*x) round separately, so   *)
(* that I need not be symmetric.  For I = [[a, b], [-b, a]] the eigenvalues *)
(* are a + ib and a - ib with eigenvectors c*(1, i) and its conjugate, c a  *)
(* unit: for a real matrix np.linalg.eig returns complex eigenvectors in    *)
(* conjugate pairs.                                                          *)

Cx(re, im) == [re |-> re, im |-> im]

conj(z) == Cx(z.re, -z.im)

CMul(z, w) == Cx(z.re * w.re - z.im * w.im, z.re * w.im + z.im * w.re)

Units == {Cx(1, 0), Cx(-1, 0), Cx(0, 1), Cx(0, -1)}

ComplexTensors ==
    {[a |-> a, b |-> b, c |-> -b, d |-> a] :
        a \in -MaxInertia..MaxInertia, b \in (-MaxInertia..MaxInertia) \ {0}}

\* la, v = np.linalg.eig(I), dtype complex128: the set of possible outcomes.
\* v is held as the pair of its rows; column i belongs to la[i].
eig_complex(I) ==
    {LET u == <<c, CMul(c, Cx(0, 1))>>
         la1 == Cx(I.a, I.b)
     IN  IF first
         THEN [la |-> <<la1, conj(la1)>>,
               v |-> << <<u[1], conj(u[1])>>, <<u[2], conj(u[2])>> >>]
         ELSE [la |-> <<conj(la1), la1>>,
               v |-> << <<conj(u[1]), u[1]>>, <<conj(u[2]), u[2]>> >>] :
        c \in Units, first \in BOOLEAN}

\* np.argsort(la) on complex values: by real part, then by imaginary part
argsort_complex(la) ==
    IF \/ la[2].re < la[1].re
       \/ la[2].re = la[1].re /\ la[2].im < la[1].im
    THEN <<2, 1>> ELSE <<1, 2>>

\* v = v[sort_idx]; v0 = v[0]
principal_v0_complex(e) == e.v[argsort_complex(e.la)[1]]

\* the real part is taken whatever the imaginary parts are
imag_max_ignored(v0) == FALSE

\* v0.imag.max() > 0
imag_max_positive(v0) == Max(v0[1].im, v0[2].im) > 0

\* lines 201-212 for a complex v0: raise, or v0 = v0.real and the angle
identify_principle_axis_complex(e) ==
    LET v0 == principal_v0_complex(e)
    IN  IF imag_max_positive(v0)
        THEN [exc |-> "Exception", theta |-> 0]
        ELSE [exc |-> "none", theta |-> positive_angle(<<v0[1].re, v0[2].re>>)]

ComplexAxisInit ==
    acall \in {[pc |-> "ready", I |-> I, la |-> <<Cx(0, 0), Cx(0, 0)>>,
                v |-> << <<Cx(0, 0), Cx(0, 0)>>, <<Cx(0, 0), Cx(0, 0)>> >>,
                v0 |-> <<Cx(0, 0), Cx(0, 0)>>, theta |-> 0, exc |-> "none"] :
                    I \in ComplexTensors}

ComplexAxisCall ==
    /\ acall.pc = "ready"
    /\ \E e \in eig_complex(acall.I) :
           LET r == identify_principle_axis_complex(e)
           IN  acall' = [acall EXCEPT
                            !.pc = IF r.exc = "none" THEN "returned" ELSE "raised",
                            !.la = e.la,
                            !.v = e.v,
                            !.v0 = principal_v0_complex(e),
                            !.theta = r.theta,
                            !.exc = r.exc]

----------------------------------------------------------------------------
(* charactistic_scales *)

None == [k |-> "none", v |-> 0]

\* theta = np.nan: a Python float, not a DataArray
PyNaN == [k |-> "pynan", v |-> 0]

Methods == {"MASS_WEIGHTED", "CUTOFF"}

\* sample_angle, in degrees
SampleAngles == {None, FNum(0), FNum(45), FNum(135)}

\* What every line through the cumulant shares: its value at distance 0 and
\* the maximum of the field.  The cumulant is an inverse FFT, so that it is
\* free of NaN or NaN in every cell.
ScalesInputs ==
    {in \in [origin : SampleVals, data_max : DMaxVals] :
        /\ isnan(in.origin) <=> isnan(in.data_max)
        /\ ~isnan(in.data_max) => in.origin.v <= in.data_max.v}

\* the line profiles a cumulant with this origin value and maximum can have
LinesOf(in) ==
    IF isnan(in.data_max) THEN {[mu \in Nodes(HalfWidth) |-> NaN]}
    ELSE {l \in [Nodes(HalfWidth) -> FiniteVals] :
             /\ l[0] = in.origin
             /\ \A mu \in Nodes(HalfWidth) : l[mu].v <= in.data_max.v}

\* width_func(C_vv, theta) for every line: <<method, input, outcome>> with
\* outcome = [exc, width]
WidthOutcomes ==
    UNION {UNION {{<<"CUTOFF", in, [exc |-> r.exc, width |-> r.width]>> :
                        r \in _find_width_through_cutoff(l, in.data_max)} :
                            l \in LinesOf(in)} : in \in ScalesInputs}
    \cup
    UNION {{<<"MASS_WEIGHTED", in, _find_width_through_mass_weighting(l)>> :
                l \in LinesOf(in)} : in \in ScalesInputs}

width_func(method, in) ==
    {t[3] : t \in {u \in WidthOutcomes : u[1] = method /\ u[2] = in}}

\* d_width/mean_width > 0.30 with d_width = np.abs(w_perp - w_princ) and
\* mean_width = 0.5*(w_perp + w_princ), in numpy arithmetic
rel_diff_exceeds(w_perp, w_princ) ==
    LET d_width == FAbs(FSub(w_perp, w_princ))
        sum == FAdd(w_perp, w_princ)
    IN  /\ ~isnan(d_width)
        /\ ~isnan(sum)
        /\ IF IsInf(d_width) THEN IsFin(sum) /\ sum.v >= 0
           ELSE IF IsInf(sum) THEN FALSE
           ELSE IF sum.v = 0 THEN d_width.v > 0
           ELSE sum.v > 0 /\ 20 * d_width.v > 3 * sum.v

\* the test of line 656, without the second conjunct
grow_cond_any_order(w_perp, w_princ) == rel_diff_exceeds(w_perp, w_princ)

\* d_width/mean_width > 0.30 and width_perpendicular > width_principle_axis
grow_cond(w_perp, w_princ) ==
    rel_diff_exceeds(w_perp, w_princ) /\ FGt(w_perp, w_princ)

\* the loop's iteration cap: m > 10
iteration_cap == 10

NoDataset == [principle_axis |-> None, width_principle |-> None,
              width_perpendicular |-> None, is_covariant |-> FALSE]

\* theta_deg = theta.values*180./pi; xr.Dataset(dict(...))
make_dataset(th, w_princ, w_perp, covariant) ==
    [principle_axis |-> FNum((th.v * 180) \div pi),
     width_principle |-> w_princ,
     width_perpendicular |-> w_perp,
     is_covariant |-> covariant]

\* lines 18-35: what importing calc.py binds.  fft is pyfftw's numpy_fft or
\* numpy.fft, the same transform.
Imported ==
    [fft |-> "numpy_fft",
     _var_name_mapping |-> {"q", "t", "q_flux", "t_flux", "w0400"},
     RE_CUMULANT_NAME |-> "C\\((\\w+),(\\w+)\\)(.*)"]

\* no call of width_func made yet
NoWidthCalls == [n |-> 0, principle |-> None, perpendicular |-> None]

\* what a call that ran into the iteration cap leaves behind (lines 660-667)
StaleFrame ==
    [pc |-> "call", l_win |-> iteration_cap + 1, m |-> iteration_cap + 1,
     n_iter |-> 0, theta |-> PyNaN, width_principle_axis |-> NaN,
     width_perpendicular |-> NaN, n_warn |-> 0, exc |-> "none",
     dataset |-> NoDataset, width_calls |-> NoWidthCalls]

\* the statement the first call has just executed: where, on which window
\* (identify_principle_axis) and at which angle (width_func)
NoStep == [pc |-> "none", l_win |-> 0, theta |-> None]

NoTwin == [phase |-> "off"]

ScalesInit ==
    /\ pc = "call"
    /\ sample_angle \in SampleAngles
    /\ width_est_method \in Methods
    /\ \E in \in ScalesInputs : origin = in.origin /\ data_max = in.data_max
    /\ l_win = 0
    /\ m = 0
    /\ n_iter = 0
    /\ theta = None
    /\ width_principle_axis = None
    /\ width_perpendicular = None
    /\ n_warn = 0
    /\ exc = "none"
    /\ dataset = NoDataset
    /\ width_calls = NoWidthCalls
    /\ module_level = Imported

ScalesIdle ==
    /\ pc = "idle"
    /\ sample_angle = None
    /\ width_est_method = "MASS_WEIGHTED"
    /\ origin = NaN
    /\ data_max = NaN
    /\ l_win = 0
    /\ m = 0
    /\ n_iter = 0
    /\ theta = None
    /\ width_principle_axis = None
    /\ width_perpendicular = None
    /\ n_warn = 0
    /\ exc = "none"
    /\ dataset = NoDataset
    /\ width_calls = NoWidthCalls
    /\ twin = NoTwin
    /\ module_level = Imported

\* Enter, without lines 633-635: l_win and m keep what they held
EnterStale ==
    /\ pc = "call"
    /\ pc' = IF sample_angle = None THEN "loop" ELSE "fixed"
    /\ UNCHANGED <<sample_angle, width_est_method, origin, data_max, l_win, m,
                   n_iter, theta, width_principle_axis, width_perpendicular,
                   n_warn, exc, dataset, wcall, acall, ccall, width_calls, module_level>>

\* the same entering the loop whatever sample_angle is
EnterLoop ==
    /\ pc = "call"
    /\ pc' = "loop"
    /\ l_win' = 0
    /\ m' = 0
    /\ UNCHANGED <<sample_angle, width_est_method, origin, data_max, n_iter, theta,
                   width_principle_axis, width_perpendicular, n_warn, exc,
                   dataset, wcall, acall, ccall, width_calls, module_level>>

\* lines 615-636: the cumulant is computed, l_win = l_theta_win, m = 0
Enter ==
    /\ pc = "call"
    /\ pc' = IF sample_angle = None THEN "loop" ELSE "fixed"
    /\ l_win' = 0
    /\ m' = 0
    /\ UNCHANGED <<sample_angle, width_est_method, origin, data_max, n_iter, theta,
                   width_principle_axis, width_perpendicular, n_warn, exc,
                   dataset, wcall, acall, ccall, width_calls, module_level>>

\* lines 637-638: theta = sample_angle*pi/180.
FixedAngle ==
    /\ pc = "fixed"
    /\ theta' = FNum((sample_angle.v * pi) \div 180)
    /\ pc' = "width_principle"
    /\ UNCHANGED <<sample_angle, width_est_method, origin, data_max, l_win, m,
                   n_iter, width_principle_axis, width_perpendicular, n_warn,
                   exc, dataset, wcall, acall, ccall, width_calls, module_level>>

\* lines 644-645: the top of the loop body.  On a NaN cumulant np.linalg.eig
\* raises LinAlgError unless the window is empty.
LoopBody ==
    /\ pc = "loop"
    /\ m < MaxGrow
    /\ n_iter' = n_iter + 1
    /\ \/ /\ \E th \in AxisOutcomes : theta' = FNum(th)
          /\ pc' = "width_principle"
          /\ exc' = exc
       \/ /\ isnan(data_max)
          /\ pc' = "raised"
          /\ exc' = "LinAlgError"
          /\ theta' = theta
    /\ width_calls' = [width_calls EXCEPT !.principle = None, !.perpendicular = None]
    /\ UNCHANGED <<sample_angle, width_est_method, origin, data_max, l_win, m,
                   width_principle_axis, width_perpendicular, n_warn, dataset,
                   wcall, acall, ccall, module_level>>

\* lines 647 and 640: width_principle_axis = width_func(C_vv, theta)
WidthPrinciple ==
    /\ pc = "width_principle"
    /\ width_calls' = [width_calls EXCEPT !.n = @ + 1, !.principle = theta]
    /\ \E r \in width_func(width_est_method,
                           [origin |-> origin, data_max |-> data_max]) :
        IF r.exc # "none"
        THEN /\ pc' = "raised"
             /\ exc' = r.exc
             /\ UNCHANGED width_principle_axis
        ELSE /\ pc' = "width_perpendicular"
             /\ exc' = exc
             /\ width_principle_axis' = r.width
    /\ UNCHANGED <<sample_angle, width_est_method, origin, data_max, l_win, m,
                   n_iter, theta, width_perpendicular, n_warn, dataset, wcall,
                   acall, ccall, module_level>>

\* lines 648 and 641: width_perpendicular = width_func(C_vv, theta+pi/2.)
WidthPerpendicular ==
    /\ pc = "width_perpendicular"
    /\ width_calls' = [width_calls EXCEPT
                          !.n = @ + 1, !.perpendicular = FNum(theta.v + pi \div 2)]
    /\ \E r \in width_func(width_est_method,
                           [origin |-> origin, data_max |-> data_max]) :
        IF r.exc # "none"
        THEN /\ pc' = "raised"
             /\ exc' = r.exc
             /\ UNCHANGED width_perpendicular
        ELSE /\ pc' = IF sample_angle = None THEN "test" ELSE "return"
             /\ exc' = exc
             /\ width_perpendicular' = r.width
    /\ UNCHANGED <<sample_angle, width_est_method, origin, data_max, l_win, m,
                   n_iter, theta, width_principle_axis, n_warn, dataset, wcall,
                   acall, ccall, module_level>>

\* lines 653-667: the exits of the loop and the window growth
LoopTest ==
    /\ pc = "test"
    /\ IF isnan(width_perpendicular) \/ isnan(width_principle_axis)
       THEN /\ pc' = "return"
            /\ UNCHANGED <<l_win, m, n_warn, theta, width_principle_axis,
                           width_perpendicular>>
       ELSE IF grow_cond(width_perpendicular, width_principle_axis)
       THEN /\ l_win' = l_win + 1
            /\ m' = m + 1
            /\ IF m + 1 > iteration_cap
               THEN /\ n_warn' = n_warn + 1
                    /\ width_principle_axis' = NaN
                    /\ width_perpendicular' = NaN
                    /\ theta' = PyNaN
               ELSE UNCHANGED <<n_warn, theta, width_principle_axis,
                                width_perpendicular>>
            /\ pc' = "loop"
       ELSE /\ pc' = "return"
            /\ UNCHANGED <<l_win, m, n_warn, theta, width_principle_axis,
                           width_perpendicular>>
    /\ UNCHANGED <<sample_angle, width_est_method, origin, data_max, n_iter, exc,
                   dataset, wcall, acall, ccall, width_calls, module_level>>

\* lines 671-682: theta.values raises AttributeError on a Python float
Return ==
    /\ pc = "return"
    /\ IF theta = PyNaN
       THEN /\ pc' = "raised"
            /\ exc' = "AttributeError"
            /\ UNCHANGED dataset
       ELSE /\ pc' = "done"
            /\ exc' = exc
            /\ \E c0 \in SampleVals :
                   dataset' = make_dataset(theta, width_principle_axis,
                                           width_perpendicular, FGt(c0, FNum(0)))
    /\ UNCHANGED <<sample_angle, width_est_method, origin, data_max, l_win, m,
                   n_iter, theta, width_principle_axis, width_perpendicular,
                   n_warn, wcall, acall, ccall, width_calls, module_level>>

----------------------------------------------------------------------------
(* Two calls of charactistic_scales with the same arguments, run statement  *)
(* by statement side by side.  The variables of charactistic_scales hold    *)
(* the call whose turn it is, twin.other holds the other one.  The second   *)
(* call starts on what an earlier call left behind.  np.linalg.eig and the  *)
(* sampling of a line are functions: called with the same window, or the    *)
(* same angle, on the same cumulant they return to the second call what     *)
(* they returned to the first.                                              *)

\* the variables one call of charactistic_scales works on
Frame ==
    [pc |-> pc, l_win |-> l_win, m |-> m, n_iter |-> n_iter, theta |-> theta,
     width_principle_axis |-> width_principle_axis,
     width_perpendicular |-> width_perpendicular, n_warn |-> n_warn,
     exc |-> exc, dataset |-> dataset, width_calls |-> width_calls]

TwinInit ==
    /\ ScalesInit
    /\ twin = [phase |-> "step", turn |-> 1, other |-> StaleFrame, last |-> NoStep]

\* one statement of charactistic_scales, the loop entered at most MaxReplay
\* times
CallStep ==
    \/ Enter
    \/ FixedAngle
    \/ LoopBody /\ n_iter < MaxReplay
    \/ WidthPrinciple
    \/ WidthPerpendicular
    \/ LoopTest
    \/ Return

\* The second call's statement, where it calls what the first call's did
\* with the same arguments, has the same outcome: identify_principle_axis
\* (line 645) on the same window, width_func (lines 647-648) at the same
\* angle, C_vv.sel (line 673) on the same cumulant.
Replayed ==
    LET first == twin.other
        last == twin.last
    IN  /\ (pc = "loop" /\ last.pc = "loop" /\ last.l_win = l_win) =>
               /\ pc' = first.pc
               /\ exc' = first.exc
               /\ pc' = "width_principle" => theta' = first.theta
        /\ (pc = "width_principle" /\ last.pc = pc /\ last.theta = theta) =>
               /\ pc' = first.pc
               /\ exc' = first.exc
               /\ pc' # "raised" =>
                      width_principle_axis' = first.width_principle_axis
        /\ (pc = "width_perpendicular" /\ last.pc = pc /\ last.theta = theta) =>
               /\ pc' = first.pc
               /\ exc' = first.exc
               /\ pc' # "raised" =>
                      width_perpendicular' = first.width_perpendicular
        /\ (pc = "return" /\ last.pc = pc /\ pc' = "done" /\ first.pc = "done") =>
               dataset'.is_covariant = first.dataset.is_covariant

\* the first call executes a statement
FirstStep ==
    /\ twin.phase = "step"
    /\ twin.turn = 1
    /\ CallStep
    /\ twin' = [twin EXCEPT
                   !.phase = "swap",
                   !.last = [pc |-> pc,
                             l_win |-> IF pc = "loop" THEN l_win ELSE 0,
                             theta |-> IF pc \in {"width_principle",
                                                  "width_perpendicular"}
                                       THEN theta ELSE None]]

\* the second call executes a statement
SecondStep ==
    /\ twin.phase = "step"
    /\ twin.turn = 2
    /\ CallStep
    /\ Replayed
    /\ twin' = [twin EXCEPT !.phase = "swap"]

\* the turn passes to the other call
Swap ==
    /\ twin.phase = "swap"
    /\ twin' = [twin EXCEPT !.phase = "step", !.turn = 3 - @, !.other = Frame]
    /\ pc' = twin.other.pc
    /\ l_win' = twin.other.l_win
    /\ m' = twin.other.m
    /\ n_iter' = twin.other.n_iter
    /\ theta' = twin.other.theta
    /\ width_principle_axis' = twin.other.width_principle_axis
    /\ width_perpendicular' = twin.other.width_perpendicular
    /\ n_warn' = twin.other.n_warn
    /\ exc' = twin.other.exc
    /\ dataset' = twin.other.dataset
    /\ width_calls' = twin.other.width_calls
    /\ UNCHANGED <<sample_angle, width_est_method, origin, data_max, wcall,
                   acall, ccall, module_level>>

----------------------------------------------------------------------------
(* calc_2nd_cumulant.  A field is a record: its shape, its dims ("xy" for   *)
(* ('x', 'y'), "yx" otherwise), an identifier of its coordinate axes and    *)
(* its values, a function on the flat indices 0..N-1 in row-major order.    *)
(* A mask is a field with values 0 (False) and 1 (True).  Arithmetic is     *)
(* exact: the centred field is held as N*(v - v.mean()) and the cumulant as *)
(* N^3 times its value, N = Nx*Ny, so that all quantities are integers.     *)

Absent == [present |-> FALSE, shape |-> <<0, 0>>, dims |-> "xy", coords |-> 0,
           vals |-> [n \in {} |-> 0]]

Field(shape, dims, coords, vals) ==
    [present |-> TRUE, shape |-> shape, dims |-> dims, coords |-> coords,
     vals |-> vals]

Shapes == {sh \in (1..MaxCells) \X (1..MaxCells) : sh[1] * sh[2] <= MaxCells}

Size(shape) == shape[1] * shape[2]

Cells(shape) == 0..(Size(shape) - 1)

\* np.sum of the first n values of g
RECURSIVE np_sum(_, _)
np_sum(g, n) == IF n = 0 THEN 0 ELSE g[n - 1] + np_sum(g, n - 1)

\* the field not centred, times N
keep_mean(vals, shape) == [n \in Cells(shape) |-> Size(shape) * vals[n]]

\* v - v.mean(), times N
subtract_mean(vals, shape) ==
    [n \in Cells(shape) |-> Size(shape) * vals[n] - np_sum(vals, Size(shape))]

\* the field with the mask not applied
where_all(vals, mask) == vals

\* v.where(mask.values, other=0.0)
where(vals, mask) == [n \in DOMAIN vals |-> IF mask.vals[n] = 1 THEN vals[n] ELSE 0]

\* the flat index of cell (i, j), indices taken modulo the shape
Flat(i, j, shape) == (i % shape[1]) * shape[2] + (j % shape[2])

Row(n, shape) == n \div shape[2]

Col(n, shape) == n % shape[2]

\* fft.ifft2(V1*V2.conjugate()) with V = fft.fft2(v): the circular
\* correlation, at lag k the sum over n of a1[n + k]*a2[n]
ifft2_product(a1, a2, shape) ==
    [k \in Cells(shape) |->
        np_sum([n \in Cells(shape) |->
                   a1[Flat(Row(n, shape) + Row(k, shape),
                           Col(n, shape) + Col(k, shape), shape)] * a2[n]],
               Size(shape))]

\* the two rolls with the shifts negated
roll_back(c, shape, s0, s1) ==
    [n \in Cells(shape) |->
        c[Flat(Row(n, shape) + s0, Col(n, shape) + s1, shape)]]

\* np.roll(np.roll(c, shift=s1, axis=1), shift=s0, axis=0)
roll(c, shape, s0, s1) ==
    [n \in Cells(shape) |->
        c[Flat(Row(n, shape) - s0 + shape[1], Col(n, shape) - s1 + shape[2], shape)]]

\* the shifts with Nx, Ny unpacked as for ('x', 'y') in both branches
centre_unpacked_xy(c, shape, dims) ==
    roll(c, shape, shape[2] \div 2, shape[1] \div 2)

\* lines 119-129: the shifts of the two branches, from Nx and Ny as unpacked
\* at lines 92-95
centre_on_zero(c, shape, dims) ==
    IF dims = "xy"
    THEN LET Nx == shape[1]
             Ny == shape[2]
         IN  roll(c, shape, Nx \div 2, Ny \div 2)
    ELSE LET Ny == shape[1]
             Nx == shape[2]
         IN  roll(c, shape, Ny \div 2, Nx \div 2)

NoCumulant == [exc |-> "none", n_fft |-> 0, out |-> [n \in {} |-> 0]]

\* v -= v.mean(); v[~mask] = 0 on the object passed in
written_in_place(v, a) == IF v.present THEN [v EXCEPT !.vals = a] ELSE v

\* lines 98, 101, 107, 110: v = v - v.mean() and v = v.where(...) bind the
\* local name to a new array a; the object passed in keeps its values
rebound(v, a) == v

\* lines 102-103: the assertions on the mask
mask_checked(v1, mask) ==
    IF mask.present /\ (v1.shape # mask.shape \/ v1.dims # mask.dims)
    THEN "AssertionError" ELSE "none"

\* lines 97-111: v = v - v.mean(), then v.where(mask.values, other=0.0)
centre_and_mask(v, mask) ==
    LET c == subtract_mean(v.vals, v.shape)
    IN  IF mask.present THEN where(c, mask) ELSE c

\* the second field centred and not masked
second_unmasked(v2, mask, a1) ==
    IF v2.present THEN subtract_mean(v2.vals, v2.shape) ELSE a1

\* lines 100-101, 113-114, 117-121: v2 centred and masked like v1, or v2 = v1
\* when v2 is None
second_field(v2, mask, a1) ==
    IF v2.present THEN centre_and_mask(v2, mask) ELSE a1

\* The body of calc_2nd_cumulant: [exc, n_fft, out, v1, v2].  n_fft counts
\* the transforms computed (fft2 of v1, fft2 of v2 when given, ifft2); v1 and
\* v2 are the objects passed in as the call leaves them.  An assertion that
\* fails at line 102 or 103 comes after the centring of lines 97-101.
calc_2nd_cumulant(v1, v2, mask) ==
    IF v2.present /\ v1.shape # v2.shape
    THEN [exc |-> "AssertionError", n_fft |-> 0, out |-> NoCumulant.out,
          v1 |-> v1, v2 |-> v2]
    ELSE IF mask_checked(v1, mask) # "none"
    THEN [exc |-> mask_checked(v1, mask), n_fft |-> 0, out |-> NoCumulant.out,
          v1 |-> rebound(v1, subtract_mean(v1.vals, v1.shape)),
          v2 |-> rebound(v2, IF v2.present
                             THEN subtract_mean(v2.vals, v2.shape)
                             ELSE v2.vals)]
    ELSE LET a1 == centre_and_mask(v1, mask)
             a2 == second_field(v2, mask, a1)
             c_vv_fft == ifft2_product(a1, a2, v1.shape)
         IN  [exc |-> "none",
              n_fft |-> IF v2.present THEN 3 ELSE 2,
              out |-> centre_on_zero(c_vv_fft, v1.shape, v1.dims),
              v1 |-> rebound(v1, a1),
              v2 |-> rebound(v2, a2)]

\* One call: the objects passed in, what the caller gave (given), and after
\* the call the outcome.
CumulantRun(v1, v2, mask) ==
    [pc |-> "ready", v1 |-> v1, v2 |-> v2, mask |-> mask, exc |-> "none",
     n_fft |-> 0, out |-> NoCumulant.out,
     given |-> [v1 |-> v1, v2 |-> v2, mask |-> mask]]

IdleRun == [pc |-> "idle"]

CumulantIdle == [a |-> IdleRun, b |-> IdleRun]

Fields(shape) == [Cells(shape) -> 0..MaxField]

Masks(shape) == [Cells(shape) -> {0, 1}]

Ones(shape) == [n \in Cells(shape) |-> 1]

OtherDims(dims) == IF dims = "xy" THEN "yx" ELSE "xy"

\* the second field: omitted, v1 itself, another field on the same axes, a
\* field of the same shape on other coordinate axes, a field of another shape
SecondFields(v1) ==
    {Absent, v1,
     [v1 EXCEPT !.vals = [n \in DOMAIN v1.vals |-> MaxField - v1.vals[n]]],
     [v1 EXCEPT !.coords = 1]}
    \cup {Field(sh, v1.dims, 0, Ones(sh)) : sh \in Shapes \ {v1.shape}}

\* the mask: omitted, a mask on the grid of v1, one with other dims, one of
\* another shape
MaskFields(v1) ==
    {Absent}
    \cup {Field(v1.shape, v1.dims, 0, mv) : mv \in Masks(v1.shape)}
    \cup {Field(v1.shape, OtherDims(v1.dims), 0, Ones(v1.shape))}
    \cup {Field(sh, v1.dims, 0, Ones(sh)) : sh \in Shapes \ {v1.shape}}

FirstFields ==
    UNION {{Field(sh, dims, 0, vals) : vals \in Fields(sh)} :
              sh \in Shapes, dims \in {"xy", "yx"}}

\* the masks tried with v1 and v2: none once v2 fails the shape assertion,
\* none and the mask that is True everywhere when v2 is v1 or lies on other
\* coordinate axes, every mask otherwise
MasksFor(v1, v2) ==
    IF v2.present /\ v2.shape # v1.shape THEN {Absent}
    ELSE IF v2.present /\ (v2 = v1 \/ v2.coords # v1.coords)
    THEN {Absent, Field(v1.shape, v1.dims, 0, Ones(v1.shape))}
    ELSE MaskFields(v1)

CumulantInit ==
    \E v1 \in FirstFields : \E v2 \in SecondFields(v1) :
        \E mask \in MasksFor(v1, v2) :
            ccall = [a |-> CumulantRun(v1, v2, mask), b |-> IdleRun]

\* two calls with one mask on fields that agree wherever the mask is True
MaskedPairInit ==
    \E v1 \in FirstFields : \E mv \in Masks(v1.shape) :
        \E w \in {f \in Fields(v1.shape) :
                     \A n \in Cells(v1.shape) : mv[n] = 1 => f[n] = v1.vals[n]} :
            LET mask == Field(v1.shape, v1.dims, 0, mv)
            IN  ccall = [a |-> CumulantRun(v1, Absent, mask),
                         b |-> CumulantRun([v1 EXCEPT !.vals = w], Absent, mask)]

\* calc_2nd_cumulant(v1, None, mask) and calc_2nd_cumulant(v1, v1, mask)
AutoPairInit ==
    \E v1 \in FirstFields :
        \E mask \in {Absent} \cup {Field(v1.shape, v1.dims, 0, mv) :
                                      mv \in Masks(v1.shape)} :
            ccall = [a |-> CumulantRun(v1, Absent, mask),
                     b |-> CumulantRun(v1, v1, mask)]

\* calc_2nd_cumulant(v1, v2, mask), call r of the two; b follows a
CumulantCall(r) ==
    /\ ccall[r].pc = "ready"
    /\ r = "b" => ccall.a.pc # "ready"
    /\ LET c == calc_2nd_cumulant(ccall[r].v1, ccall[r].v2, ccall[r].mask)
       IN  ccall' = [ccall EXCEPT
                        ![r] = [@ EXCEPT
                                   !.pc = IF c.exc = "none" THEN "returned"
                                          ELSE "raised",
                                   !.exc = c.exc,
                                   !.n_fft = c.n_fft,
                                   !.out = c.out,
                                   !.v1 = c.v1,
                                   !.v2 = c.v2]]

----------------------------------------------------------------------------
(* Specifications *)

\* charactistic_scales, one call
Init ==
    /\ ScalesInit
    /\ twin = NoTwin
    /\ wcall = WidthIdle
    /\ acall = AxisIdle
    /\ ccall = CumulantIdle
Next ==
    \/ Enter /\ UNCHANGED twin
    \/ FixedAngle /\ UNCHANGED twin
    \/ LoopBody /\ UNCHANGED twin
    \/ WidthPrinciple /\ UNCHANGED twin
    \/ WidthPerpendicular /\ UNCHANGED twin
    \/ LoopTest /\ UNCHANGED twin
    \/ Return /\ UNCHANGED twin
Spec == Init /\ [][Next]_vars

\* charactistic_scales called twice with the same arguments
InitTwice == TwinInit /\ wcall = WidthIdle /\ acall = AxisIdle /\ ccall = CumulantIdle
NextTwice ==
    \/ FirstStep
    \/ SecondStep
    \/ Swap
SpecTwice == InitTwice /\ [][NextTwice]_vars

\* _find_width_through_mass_weighting on every line profile
InitMass == ScalesIdle /\ MassInit /\ acall = AxisIdle /\ ccall = CumulantIdle
NextMass == MassWeightedCall /\ UNCHANGED <<scalesVars, acall, ccall>>
SpecMass == InitMass /\ [][NextMass]_vars

\* _find_width_through_cutoff on every line profile
InitCutoff == ScalesIdle /\ CutoffInit /\ acall = AxisIdle /\ ccall = CumulantIdle
NextCutoff == CutoffCall /\ UNCHANGED <<scalesVars, acall, ccall>>
SpecCutoff == InitCutoff /\ [][NextCutoff]_vars

\* either width estimator
InitWidth == ScalesIdle /\ (MassInit \/ CutoffInit) /\ acall = AxisIdle /\ ccall = CumulantIdle
NextWidth ==
    \/ MassWeightedCall /\ UNCHANGED <<scalesVars, acall, ccall>>
    \/ CutoffCall /\ UNCHANGED <<scalesVars, acall, ccall>>
SpecWidth == InitWidth /\ [][NextWidth]_vars

\* identify_principle_axis on every inertia tensor
InitAxis == ScalesIdle /\ wcall = WidthIdle /\ AxisInit /\ ccall = CumulantIdle
NextAxis == AxisCall /\ UNCHANGED <<scalesVars, wcall, ccall>>
SpecAxis == InitAxis /\ [][NextAxis]_vars

\* identify_principle_axis on every tensor with complex eigenvalues
InitAxisComplex == ScalesIdle /\ wcall = WidthIdle /\ ComplexAxisInit /\ ccall = CumulantIdle
NextAxisComplex == ComplexAxisCall /\ UNCHANGED <<scalesVars, wcall, ccall>>
SpecAxisComplex == InitAxisComplex /\ [][NextAxisComplex]_vars

\* calc_2nd_cumulant on every field, second field and mask
InitCumulant == ScalesIdle /\ wcall = WidthIdle /\ acall = AxisIdle /\ CumulantInit
NextCumulant == CumulantCall("a") /\ UNCHANGED <<scalesVars, wcall, acall>>
SpecCumulant == InitCumulant /\ [][NextCumulant]_vars

\* two calls of calc_2nd_cumulant, one after the other
NextCumulantPair ==
    \/ CumulantCall("a") /\ UNCHANGED <<scalesVars, wcall, acall>>
    \/ CumulantCall("b") /\ UNCHANGED <<scalesVars, wcall, acall>>

\* calc_2nd_cumulant with a mask on two fields that differ outside of it
InitCumulantMasked ==
    ScalesIdle /\ wcall = WidthIdle /\ acall = AxisIdle /\ MaskedPairInit
SpecCumulantMasked == InitCumulantMasked /\ [][NextCumulantPair]_vars

\* calc_2nd_cumulant with v2 omitted and with v2 = v1
InitCumulantAuto ==
    ScalesIdle /\ wcall = WidthIdle /\ acall = AxisIdle /\ AutoPairInit
SpecCumulantAuto == InitCumulantAuto /\ [][NextCumulantPair]_vars

\* identify_principle_axis: the window and the sign cell, on every grid
InitWindow ==
    ScalesIdle /\ wcall = WidthIdle /\ ccall = CumulantIdle /\ WindowInit
NextWindow == WindowCall /\ UNCHANGED <<scalesVars, wcall, ccall>>
SpecWindow == InitWindow /\ [][NextWindow]_vars

\* _extract_cumulant_center, one call
InitCenter ==
    ScalesIdle /\ CenterInit /\ acall = AxisIdle /\ ccall = CumulantIdle
NextCenter == CenterCall /\ UNCHANGED <<scalesVars, acall, ccall>>
SpecCenter == InitCenter /\ [][NextCenter]_vars

\* the line sampler at mu = 0, on the axes of the input fields
InitSample ==
    ScalesIdle /\ wcall = WidthIdle /\ ccall = CumulantIdle /\ SampleInit
NextSample == SampleCall /\ UNCHANGED <<scalesVars, wcall, ccall>>
SpecSample == InitSample /\ [][NextSample]_vars

\* a call of calc_2nd_cumulant, or one of charactistic_scales
InitFrame ==
    \/ InitCumulant
    \/ Init
NextFrame ==
    \/ NextCumulant
    \/ CallStep /\ UNCHANGED twin
SpecFrame == InitFrame /\ [][NextFrame]_vars

----------------------------------------------------------------------------
(* Claims *)

InLoop ==
    \/ pc \in {"loop", "test"}
    \/ sample_angle = None /\ pc \in {"width_principle", "width_perpendicular"}

\* C1: the window-growth loop exits on convergence, on a NaN width or at the
\* iteration cap: once the growth counter has passed the cap, control has
\* left the loop.
C1_LoopExitsAtCap == m > iteration_cap => ~InLoop

\* C2: a call whose loop reached the iteration cap has emitted the warning
\* and returns NaN for principle_axis, width_principle and
\* width_perpendicular.
C2_CapReportsNaN ==
    (pc = "done" /\ sample_angle = None /\ m > iteration_cap) =>
        /\ n_warn > 0
        /\ isnan(dataset.principle_axis)
        /\ isnan(dataset.width_principle)
        /\ isnan(dataset.width_perpendicular)

\* C3: the loop body executes at most 10 times in one call.
C3_AtMostTenIterations == n_iter <= 10

NaNSeen == isnan(width_perpendicular) \/ isnan(width_principle_axis)

\* C4: when a width of the iteration is NaN the loop stops in
\* that iteration, without growing the window, and the returned widths are
\* both NaN.
C4_NaNExitReportsBothNaN ==
    [][/\ (pc = "test" /\ NaNSeen) =>
            (pc' = "return" /\ l_win' = l_win /\ m' = m /\ n_iter' = n_iter)
       /\ (pc = "return" /\ sample_angle = None /\ NaNSeen) =>
            /\ pc' = "done"
            /\ isnan(dataset'.width_principle)
            /\ isnan(dataset'.width_perpendicular)]_vars

\* The growth condition of the claim.  With an infinite width the quotient
\* is NaN and the comparison false; with a zero mean and different widths it
\* is +Infinity.
C5_Cond ==
    /\ IsFin(width_perpendicular)
    /\ IsFin(width_principle_axis)
    /\ width_perpendicular.v > width_principle_axis.v
    /\ width_perpendicular.v + width_principle_axis.v >= 0
    /\ 20 * (width_perpendicular.v - width_principle_axis.v)
          > 3 * (width_perpendicular.v + width_principle_axis.v)

\* C5: an iteration grows the window and repeats if and only if both widths
\* are non-NaN, differ by more than 30% of their mean and the perpendicular
\* one is the larger; in every other non-NaN case the loop ends in that
\* iteration and the call returns the axis and widths of that iteration.
C5_GrowIffCondition ==
    [][/\ pc = "test" =>
            /\ C5_Cond <=> (pc' = "loop" /\ l_win' = l_win + 1)
            /\ (~C5_Cond /\ ~NaNSeen) =>
                  /\ pc' = "return" /\ l_win' = l_win
                  /\ theta' = theta
                  /\ width_principle_axis' = width_principle_axis
                  /\ width_perpendicular' = width_perpendicular
       /\ (pc = "return" /\ sample_angle = None /\ ~NaNSeen) =>
            /\ pc' = "done"
            /\ dataset'.principle_axis = FNum(45 * theta.v)
            /\ dataset'.width_principle = width_principle_axis
            /\ dataset'.width_perpendicular = width_perpendicular]_vars

\* A call that grew the window and then accepted the widths of a later
\* iteration.
C5_Witness ==
    /\ pc = "done"
    /\ sample_angle = None
    /\ l_win > 0
    /\ IsFin(dataset.width_principle)
    /\ IsFin(dataset.width_perpendicular)

\* C6: a width estimator returns a width that is >= 0, NaN or +Infinity.
C6_WidthNeverNegative ==
    wcall.pc = "returned" =>
        \/ isnan(wcall.width)
        \/ wcall.width = Inf
        \/ IsFin(wcall.width) /\ wcall.width.v >= 0

\* root_fn has no zero and no change of sign on the bracket of find_edge(dir)
C7_NoCrossing(dir) ==
    LET lim == mu_lim(wcall.line, wcall.d_max, dir)
        sgn(i) == root_fn_sign(sample_fn(wcall.line, i), wcall.d_max)
    IN  /\ \A i \in Min(0, lim)..Max(0, lim) : sgn(i) # 0
        /\ \A i \in Min(0, lim)..(Max(0, lim) - 1) : sgn(i) * sgn(i + 1) # -1

\* C7: when the root search on an edge finds no crossing within its bound, a
\* warning is emitted, no exception escapes, that edge's distance is
\* infinity, the other edge is searched too and a width is returned.
C7_EdgeNotFoundRecovered ==
    wcall.pc # "ready" =>
        /\ C7_NoCrossing(1) =>
              /\ wcall.pc = "returned" /\ wcall.exc = "none"
              /\ wcall.pos.warned /\ wcall.pos.x_hwhm = Inf
              /\ wcall.n_edges = 2 /\ ~isnan(wcall.neg.x_hwhm)
              /\ wcall.width = FSub(wcall.pos.x_hwhm, wcall.neg.x_hwhm)
        /\ C7_NoCrossing(-1) =>
              /\ wcall.pc = "returned" /\ wcall.exc = "none"
              /\ wcall.neg.warned /\ wcall.neg.x_hwhm = Inf
              /\ wcall.n_edges = 2 /\ ~isnan(wcall.pos.x_hwhm)
              /\ wcall.width = FSub(wcall.pos.x_hwhm, wcall.neg.x_hwhm)

\* A call where the positive edge was not found and the negative edge was.
C7_Witness ==
    /\ wcall.pc = "returned"
    /\ C7_NoCrossing(1)
    /\ wcall.pos.warned
    /\ ~wcall.neg.warned
    /\ IsFin(wcall.neg.x_hwhm)

\* C8: on a line profile that is all NaN the mass-weighted estimator returns
\* NaN and raises nothing.
C8_AllNaNGivesNaN ==
    (wcall.pc # "ready" /\ \A mu \in DOMAIN wcall.line : isnan(wcall.line[mu])) =>
        /\ wcall.pc = "returned"
        /\ wcall.exc = "none"
        /\ isnan(wcall.width)

C9_ZeroMass(dir) == mass_integral(wcall.line, dir) = FNum(0)

\* C9: if the mass integral of either half-line is zero, the mass-weighted
\* estimator returns NaN and raises nothing.
C9_ZeroMassGivesNaN ==
    (wcall.pc # "ready" /\ (C9_ZeroMass(1) \/ C9_ZeroMass(-1))) =>
        /\ wcall.pc = "returned"
        /\ wcall.exc = "none"
        /\ isnan(wcall.width)

\* A call on a profile that is zero at the origin and not elsewhere: s = 0, so
\* the mass of both half-lines is zero.
C9_Witness ==
    /\ wcall.pc = "returned"
    /\ wcall.exc = "none"
    /\ C9_ZeroMass(1)
    /\ C9_ZeroMass(-1)
    /\ \E mu \in DOMAIN wcall.line : wcall.line[mu] = FNum(1)
    /\ isnan(wcall.width)

\* C10: the angle is arctan2(v0[0], v0[1]), plus pi when that is negative,
\* and lies in [0, pi).
C10_AngleInHalfOpenRange ==
    acall.pc = "returned" =>
        /\ acall.theta = LET t == arctan2(acall.v0[1], acall.v0[2])
                         IN  IF t < 0 THEN t + pi ELSE t
        /\ 0 <= acall.theta
        /\ acall.theta < pi

\* C11: if a component of the selected vector v0 has a non-zero imaginary
\* part, of either sign, identify_principle_axis raises and returns no angle;
\* it returns an angle, that of the real part, only when every imaginary part
\* is zero.
C11_ImaginaryPartRaises ==
    acall.pc # "ready" =>
        /\ (\E k \in {1, 2} : acall.v0[k].im # 0) =>
              acall.pc = "raised" /\ acall.exc = "Exception"
        /\ acall.pc = "returned" =>
              /\ \A k \in {1, 2} : acall.v0[k].im = 0
              /\ acall.theta = positive_angle(<<acall.v0[1].re, acall.v0[2].re>>)

\* A call that raised on a v0 with a component of negative imaginary part.
C11_Witness ==
    /\ acall.pc = "raised"
    /\ acall.exc = "Exception"
    /\ \E k \in {1, 2} : acall.v0[k].im < 0

\* the second field or the mask of the call does not match v1
C12_Mismatch ==
    \/ /\ ccall.a.v2.present
       /\ \/ ccall.a.v2.shape # ccall.a.v1.shape
          \/ ccall.a.v2.coords # ccall.a.v1.coords
    \/ /\ ccall.a.mask.present
       /\ \/ ccall.a.mask.shape # ccall.a.v1.shape
          \/ ccall.a.mask.dims # ccall.a.v1.dims

\* C12: when v2 differs from v1 in shape or coordinate axes, or the mask
\* differs from v1 in shape or dims, calc_2nd_cumulant raises before any
\* transform is computed and returns nothing.
C12_MismatchIsFatal ==
    (ccall.a.pc \notin {"idle", "ready"} /\ C12_Mismatch) =>
        /\ ccall.a.pc = "raised"
        /\ ccall.a.n_fft = 0
        /\ ccall.a.out = NoCumulant.out

C14_MaskedOutCellsIgnored ==
    (/\ ccall.a.pc = "returned" /\ ccall.b.pc = "returned"
     /\ ccall.a.mask.present /\ ccall.a.mask = ccall.b.mask
     /\ ~ccall.a.v2.present /\ ~ccall.b.v2.present
     /\ \A n \in DOMAIN ccall.a.v1.vals :
            ccall.a.mask.vals[n] = 1 => ccall.a.v1.vals[n] = ccall.b.v1.vals[n])
        => ccall.a.out = ccall.b.out

\* call a has returned the cumulant of v1 with itself
AutoReturned ==
    /\ ccall.a.pc = "returned"
    /\ ~ccall.a.v2.present \/ ccall.a.v2 = ccall.a.v1

\* the flat index of the cell at offset (i, j) from the zero-lag cell
AtLag(i, j) ==
    LET shape == ccall.a.v1.shape
    IN  Flat(shape[1] \div 2 + i + shape[1], shape[2] \div 2 + j + shape[2], shape)

\* C15: the cumulant of a field with itself is point-symmetric about the
\* zero-lag cell: the values at offsets (i, j) and (-i, -j) are equal.
C15_PointSymmetric ==
    AutoReturned =>
        \A i \in 0..(ccall.a.v1.shape[1] - 1), j \in 0..(ccall.a.v1.shape[2] - 1) :
            ccall.a.out[AtLag(i, j)] = ccall.a.out[AtLag(-i, -j)]

\* A returned autocorrelation on three cells in a row whose values at lag 0
\* and lag 1 differ.
C15_Witness ==
    /\ AutoReturned
    /\ Size(ccall.a.v1.shape) = 3
    /\ ccall.a.out[AtLag(0, 0)] # ccall.a.out[AtLag(1, 1)]

\* N^3 times the population variance of the field vals on N cells
VarianceOf(vals, N) ==
    N * N * np_sum([n \in DOMAIN vals |-> vals[n] * vals[n]], N)
        - N * np_sum(vals, N) * np_sum(vals, N)

\* C16: without mask the zero-lag value of the cumulant of v1 with itself is
\* the population variance of v1.
C16_ZeroLagIsVariance ==
    (AutoReturned /\ ~ccall.a.mask.present) =>
        ccall.a.out[AtLag(0, 0)]
            = VarianceOf(ccall.a.v1.vals, Size(ccall.a.v1.shape))

\* A returned autocorrelation of a field that is not constant.
C16_Witness ==
    /\ AutoReturned
    /\ ~ccall.a.mask.present
    /\ ccall.a.out[AtLag(0, 0)] > 0

\* the call is calc_2nd_cumulant(v1, mask=mask) with a mask on the grid of v1
\* that is False everywhere
C17_AllMasked ==
    /\ ~ccall.a.v2.present
    /\ ccall.a.mask.present
    /\ ccall.a.mask.shape = ccall.a.v1.shape
    /\ ccall.a.mask.dims = ccall.a.v1.dims
    /\ \A n \in DOMAIN ccall.a.mask.vals : ccall.a.mask.vals[n] = 0

\* C17: with a mask that is False in every cell the call returns a field
\* that is 0 everywhere and raises nothing.
C17_AllMaskedGivesZero ==
    (ccall.a.pc \notin {"idle", "ready"} /\ C17_AllMasked) =>
        /\ ccall.a.pc = "returned"
        /\ ccall.a.exc = "none"
        /\ DOMAIN ccall.a.out = DOMAIN ccall.a.v1.vals
        /\ \A n \in DOMAIN ccall.a.out : ccall.a.out[n] = 0

\* A returned call with everything masked out of a field that is not constant.
C17_Witness ==
    /\ ccall.a.pc = "returned"
    /\ C17_AllMasked
    /\ \E n \in DOMAIN ccall.a.v1.vals : ccall.a.v1.vals[n] # ccall.a.v1.vals[0]

\* calls a and b are calc_2nd_cumulant(v1, None, mask) and
\* calc_2nd_cumulant(v1, v1, mask)
C18_SamePair ==
    /\ ~ccall.a.v2.present
    /\ ccall.b.v2 = ccall.b.v1
    /\ ccall.a.v1 = ccall.b.v1
    /\ ccall.a.mask = ccall.b.mask

\* C18: calc_2nd_cumulant(v1, None, mask) and calc_2nd_cumulant(v1, v1, mask)
\* return the same values.
C18_OmittedIsSelf ==
    (C18_SamePair /\ ccall.b.pc \notin {"idle", "ready"}) =>
        /\ ccall.a.pc = "returned" /\ ccall.b.pc = "returned"
        /\ ccall.a.out = ccall.b.out

\* Both calls returned, with a mask that is True in some cells only, a
\* cumulant that is not zero.
C18_Witness ==
    /\ C18_SamePair
    /\ ccall.a.pc = "returned" /\ ccall.b.pc = "returned"
    /\ ccall.a.mask.present
    /\ \E n \in DOMAIN ccall.a.mask.vals : ccall.a.mask.vals[n] = 0
    /\ \E n \in DOMAIN ccall.b.out : ccall.b.out[n] # 0

\* both calls have executed the same number of statements
InStep == twin.phase = "step" /\ twin.turn = 1

Ended(f) == f.pc \in {"done", "raised"}

MatVec(I, w) == <<I.a * w[1] + I.b * w[2], I.b * w[1] + I.d * w[2]>>

\* C21: the vector v0 the angle is computed from is an eigenvector of I for
\* its smallest eigenvalue: I*v0 = lambda_min*v0.
C21_V0IsSmallestEigenvector ==
    acall.pc = "returned" =>
        LET la_min == Min(acall.la[1], acall.la[2])
        IN  MatVec(acall.I, acall.v0) = <<la_min * acall.v0[1], la_min * acall.v0[2]>>

\* the indices of an axis of length N within sI_N \div 2 cells of N \div 2
CentredWindow(N, sI_N) ==
    {i \in 0..(N - 1) : N \div 2 - sI_N \div 2 <= i /\ i < N \div 2 + sI_N \div 2}

\* C22: on each axis the cells summed in the inertia tensor are a non-empty
\* range that contains the zero-lag index N \div 2 and is centred on it,
\* clipped at the grid edges, for every window size and grid size.
C22_WindowCentred ==
    acall.pc = "returned" =>
        \A k \in {1, 2} :
            /\ acall.cells[k] # {}
            /\ acall.shape[k] \div 2 \in acall.cells[k]
            /\ acall.cells[k] = CentredWindow(acall.shape[k], acall.sI_N)

\* two lines with the same sign-coherent central region and the same values
\* on it
SameCenter(l1, l2) ==
    /\ center_nodes(l1) = center_nodes(l2)
    /\ \A mu \in center_nodes(l1) : l1[mu] = l2[mu]

\* C23: with center_only = True the values outside the sign-coherent central
\* region have no influence on the mass-weighted width: a line that agrees
\* with the given one on the central region gives the same result.
C23_OutsideCenterIgnored ==
    (wcall.method = "MASS_WEIGHTED" /\ wcall.pc = "returned") =>
        \A l2 \in MassLines :
            SameCenter(wcall.line, l2) =>
                _find_width_through_mass_weighting(l2) =
                    [exc |-> "none", width |-> wcall.width]

\* the sign-flipped coarse profile at mu
flipped(line, mu) == FMul(SignAtOrigin(line), sample_fn(line, mu))

\* the half-line dir has a NaN-free coarse profile with a negative sample
GoesNegative(line, dir) ==
    /\ \A k \in 0..HalfWidth : ~isnan(flipped(line, dir * k))
    /\ \E k \in 0..HalfWidth : FNegative(flipped(line, dir * k))

\* the first negative coarse sample of the half-line, moving outward from 0
FirstNegative(line, dir) ==
    dir * (CHOOSE k \in 0..HalfWidth :
               /\ FNegative(flipped(line, dir * k))
               /\ \A j \in 0..(k - 1) : ~FNegative(flipped(line, dir * j)))

\* C24: when the sign-flipped coarse profile goes negative on a half-line, the
\* integration bound on that side is the position of the first negative
\* coarse sample, moving outward from mu = 0.
C24_BoundAtFirstNegative ==
    (wcall.method = "MASS_WEIGHTED" /\ wcall.pc = "returned") =>
        \A dir \in {1, -1} :
            GoesNegative(wcall.line, dir) =>
                LET kw == quad_limits(wcall.line, dir)
                IN  (IF dir = 1 THEN kw.b ELSE kw.a) = FirstNegative(wcall.line, dir)

\* C25: for dir = -1 the quadrature interval [a, b] satisfies
\* -max_width/2 <= a <= b = 0, also after the truncation step, so no value at
\* a positive mu enters the negative-edge centroid.
C25_NegativeInterval ==
    (wcall.method = "MASS_WEIGHTED" /\ wcall.pc = "returned") =>
        LET kw == quad_limits(wcall.line, -1)
        IN  -HalfWidth <= kw.a /\ kw.a <= kw.b /\ kw.b = 0

\* C26: the negative-edge distance find_edge(-1) gives the cutoff estimator is
\* never positive: a finite root <= 0 when the root search succeeds, negative
\* infinity when it fails.
C26_NegativeEdgeSigned ==
    (wcall.method = "CUTOFF" /\ wcall.pc = "returned") =>
        \/ IsFin(wcall.neg.x_hwhm) /\ wcall.neg.x_hwhm.v <= 0 /\ ~wcall.neg.warned
        \/ wcall.neg.x_hwhm = NegInf /\ wcall.neg.warned

\* C27: the sign s is read at the cell calc_2nd_cumulant puts zero lag in,
\* index (shape[0] \div 2, shape[1] \div 2), for both orders of the dims and for
\* non-square grids, and that read never leaves the grid.
C27_SignAtZeroLag ==
    acall.pc # "ready" =>
        /\ acall.pc = "returned"
        /\ acall.s_at = <<acall.shape[1] \div 2, acall.shape[2] \div 2>>

\* the zero-lag value of call a, the sum over the cells of the product of the
\* two centred (and masked) fields, times N^3
ZeroLagValue ==
    LET g == ccall.a.given
        a1 == centre_and_mask(g.v1, g.mask)
        a2 == second_field(g.v2, g.mask, a1)
    IN  np_sum([n \in Cells(g.v1.shape) |-> a1[n] * a2[n]], Size(g.v1.shape))

\* C28: for every grid size and both orders of the dims the zero-lag value of
\* the cumulant is at index (shape[0] \div 2, shape[1] \div 2) of the output.
C28_ZeroLagAtCentre ==
    ccall.a.pc = "returned" =>
        LET shape == ccall.a.given.v1.shape
        IN  ccall.a.out[Flat(shape[1] \div 2, shape[2] \div 2, shape)] = ZeroLagValue

\* A returned call on a 1 x 3 field with dims ('y', 'x') whose zero-lag value
\* differs from the values of the two other cells of the output.
C28_Witness ==
    /\ ccall.a.pc = "returned"
    /\ ccall.a.given.v1.dims = "yx"
    /\ ccall.a.given.v1.shape = <<1, 3>>
    /\ ccall.a.out[1] = ZeroLagValue
    /\ ccall.a.out[0] # ZeroLagValue
    /\ ccall.a.out[2] # ZeroLagValue

\* the zero-lag cell of the cumulant of the call
ZeroLagCell == cell(wcall.shape[1] \div 2, wcall.shape[2] \div 2, wcall.shape)

\* the cells of K are joined to one another through cells of K: no part of K
\* that holds the zero-lag cell is cut off from the rest of K
JoinedThrough(K) ==
    \A S \in SUBSET K :
        (ZeroLagCell \in S /\ S # K) =>
            \E n \in S : \E k \in K \ S : touching(n, k, wcall.shape)

\* C29: the cells kept are exactly the connected component of the zero-lag
\* cell within the cells of its sign: the zero-lag cell is kept, every kept
\* cell has its sign and is joined to it through kept cells, and no cell left
\* out has that sign and touches a kept cell.
C29_CenterIsComponent ==
    (wcall.method = "center" /\ wcall.pc = "returned") =>
        /\ ZeroLagCell \in wcall.kept
        /\ \A n \in wcall.kept : Sgn(wcall.vals[n]) = Sgn(wcall.vals[ZeroLagCell])
        /\ JoinedThrough(wcall.kept)
        /\ \A k \in DOMAIN wcall.vals \ wcall.kept :
               \/ Sgn(wcall.vals[k]) # Sgn(wcall.vals[ZeroLagCell])
               \/ \A n \in wcall.kept : ~touching(n, k, wcall.shape)

\* A returned call on a 2 x 4 cumulant (zero lag at cell (1, 2)) where a cell
\* of the sign of the zero-lag cell is left out, and a kept cell touches the
\* rest of the kept cells only across a diagonal.
C29_Witness ==
    /\ wcall.method = "center"
    /\ wcall.pc = "returned"
    /\ wcall.shape = <<2, 4>>
    /\ cell(0, 0, wcall.shape) \notin wcall.kept
    /\ Sgn(wcall.vals[cell(0, 0, wcall.shape)]) = Sgn(wcall.vals[ZeroLagCell])
    /\ wcall.kept = {ZeroLagCell, cell(0, 3, wcall.shape)}

\* C30: at mu = 0 the line sampler evaluates the cumulant at the zero-lag
\* cell, index N \div 2 on each axis, whatever the coordinate axes of the input
\* fields are.
C30_ZeroIsZeroLag ==
    acall.pc = "sampled" =>
        \A k \in {1, 2} :
            acall.at[k] = [k |-> "node", i |-> acall.shape[k] \div 2]

============================================================================
